---- MODULE Spec2Model ----
(***************************************************************************)
(* Model of the in-memory LRU cache with TTL expiry of vahlcode-og        *)
(* (src/cache.ts, kept here as src/unnamed/part_001 lines 159-268).       *)
(*                                                                         *)
(* The cache is a JavaScript Map<K, CacheEntry<V>>; a Map iterates in      *)
(* insertion order, so the Map is modelled as a sequence of entries whose  *)
(* head is the least-recently-used end and whose tail is the               *)
(* most-recently-used end.                                                 *)
(***************************************************************************)
EXTENDS Integers, Sequences, FiniteSets, TLC

\* ---------------------------------------------------------------- bounds
MaxCap == 2          \* largest maxSize passed to the constructor
MaxTtl == 1          \* largest finite ttl passed to the constructor
MaxTime == 2         \* the clock stops advancing here
MaxTasks == 2        \* loadGoogleFont calls made in one run of the font module
MaxLaps == 1         \* font-cache lifetimes the clock of the font module runs
MaxHeaders == 2      \* most header pairs in the headers option of an ImageResponse

\* ------------------------------------------------------- program constants
DefaultMaxSize == 50
FontCacheMaxSize == 30
FontCacheTtl == 1800000
DefaultWeight == 400
DefaultStatus == 200

\* ------------------------------------------------------------------ values
\* The JavaScript value undefined: what get returns for a miss, what
\* Map.keys().next().value is for an empty Map, and a legal key or value of
\* the generic LRUCache<K, V>.
Undefined == "<undefined>"

Keys == {"a", "b", Undefined}
Values == {"v1", "v2"}

\* JavaScript numbers as far as the cache uses them: a finite integer or
\* +Infinity (the default ttl).
Infinity == [inf |-> TRUE, n |-> 0]
Fin(n) == [inf |-> FALSE, n |-> n]

\* Mutation of the sum: Infinity is cast to an integer, which makes it 0.
NumAddFinite(a, b) == [inf |-> FALSE, n |-> a + b.n]

\* a + b for a finite a
NumAdd(a, b) == IF b.inf THEN Infinity ELSE Fin(a + b.n)

\* a > b for a finite a
NumGt(a, b) == (~b.inf) /\ a > b.n

\* x ?? d, an omitted option being <<>> and a given one <<x>>
Nullish(x, d) == IF x = <<>> THEN d ELSE x[1]

\* --------------------------------------------------- the JavaScript Map
RECURSIVE IndexOf(_, _, _)
IndexOf(m, k, i) ==
    IF i > Len(m) THEN 0
    ELSE IF m[i].key = k THEN i
    ELSE IndexOf(m, k, i + 1)

MapHas(m, k) == IndexOf(m, k, 1) # 0

\* Map.get: <<>> for undefined, <<entry>> for a stored entry
MapGet(m, k) ==
    IF MapHas(m, k)
    THEN <<[value |-> m[IndexOf(m, k, 1)].value,
            expiresAt |-> m[IndexOf(m, k, 1)].expiresAt]>>
    ELSE <<>>

MapDelete(m, k) == SelectSeq(m, LAMBDA e : e.key # k)

\* Map.set: an existing key keeps its position, a new key goes to the end
MapSet(m, k, entry) ==
    LET e == [key |-> k, value |-> entry.value, expiresAt |-> entry.expiresAt]
    IN  IF MapHas(m, k)
        THEN [m EXCEPT ![IndexOf(m, k, 1)] = e]
        ELSE Append(m, e)

\* Map.keys().next().value: undefined for an empty Map
MapFirstKey(m) == IF Len(m) = 0 THEN Undefined ELSE m[1].key

MapKeys(m) == {m[i].key : i \in 1..Len(m)}

\* ------------------------------------------------------------------ state
VARIABLES
    cache,      \* this.cache, least-recently-used entry first
    maxSize,    \* this.maxSize
    ttl,        \* this.ttl
    now,        \* Date.now()
    last,       \* the most recent call: its arguments, locals and result
    tasks,      \* the loadGoogleFont calls: where each stands, and its locals
    resp,       \* the ImageResponse constructed, with the options it was given
    stream,     \* the body stream of the ImageResponse and its start callback
    og          \* the route made by createOgImage and the call of its GET handler

vars == <<cache, maxSize, ttl, now, last, tasks, resp, stream, og>>

\* last.entry is what the Map held for the key when the call started (<<>> for
\* nothing), last.had whether it held anything (for clear: any entry at all),
\* last.evicted the oldestKey that set deleted (<<>> for none), last.ret the
\* value get returned and last.bool the boolean has or delete returned.
NoCall == [op |-> "new", key |-> Undefined, value |-> Undefined,
           entry |-> <<>>, had |-> FALSE, evicted |-> <<>>,
           ret |-> Undefined, bool |-> FALSE]

\* ------------------------------------------------------------ LRUCache
\* Mutation of the expiry test: the entry's age is never looked at.
ExpiredNever(t, entry) == FALSE

\* Mutation of the expiry test: an entry is expired from its expiresAt on.
ExpiredAtBoundary(t, entry) == (~entry.expiresAt.inf) /\ t >= entry.expiresAt.n

\* Date.now() > entry.expiresAt
Expired(t, entry) == NumGt(t, entry.expiresAt)

\* Mutation of get: a hit returns the value but leaves the key where it was.
GetCacheNoPromote(m, k, t) ==
    LET entry == MapGet(m, k)
    IN  IF entry = <<>> THEN m
        ELSE IF Expired(t, entry[1]) THEN MapDelete(m, k)
        ELSE m

\* Mutation of get: a hit renews the entry's expiresAt (sliding expiration).
GetCacheSliding(m, k, t) ==
    LET entry == MapGet(m, k)
    IN  IF entry = <<>> THEN m
        ELSE IF Expired(t, entry[1]) THEN MapDelete(m, k)
        ELSE MapSet(MapDelete(m, k), k,
                    [value |-> entry[1].value, expiresAt |-> NumAdd(t, ttl)])

\* get: the Map after the call
GetCache(m, k, t) ==
    LET entry == MapGet(m, k)
    IN  IF entry = <<>> THEN m
        ELSE IF Expired(t, entry[1]) THEN MapDelete(m, k)
        ELSE MapSet(MapDelete(m, k), k, entry[1])

\* get: the value returned
GetResult(m, k, t) ==
    LET entry == MapGet(m, k)
    IN  IF entry = <<>> THEN Undefined
        ELSE IF Expired(t, entry[1]) THEN Undefined
        ELSE entry[1].value

\* Mutation of set's first step: an existing key is left where it is.
SetKeepExisting(m, k) == m

\* set, first step: an existing key is deleted so that it goes to the end
SetRemoveExisting(m, k) == IF MapHas(m, k) THEN MapDelete(m, k) ELSE m

\* set, second step: the key evicted at capacity, <<>> when none is
SetEvictedKey(m, cap) ==
    IF Len(m) >= cap
    THEN LET oldestKey == MapFirstKey(m)
         IN  IF oldestKey # Undefined THEN <<oldestKey>> ELSE <<>>
    ELSE <<>>

SetEvict(m, cap) ==
    IF SetEvictedKey(m, cap) # <<>>
    THEN MapDelete(m, SetEvictedKey(m, cap)[1])
    ELSE m

\* Mutation of set: a key that is already stored keeps its old value.
SetCacheKeepOld(m, k, v, t, cap, life) ==
    MapSet(SetEvict(SetRemoveExisting(m, k), cap), k,
           [value |-> IF MapHas(m, k) THEN MapGet(m, k)[1].value ELSE v,
            expiresAt |-> NumAdd(t, life)])

\* set: the Map after the call
SetCache(m, k, v, t, cap, life) ==
    MapSet(SetEvict(SetRemoveExisting(m, k), cap), k,
           [value |-> v, expiresAt |-> NumAdd(t, life)])

\* Mutation of has: a live hit is promoted the way get promotes it.
HasCachePromote(m, k, t) ==
    LET entry == MapGet(m, k)
    IN  IF entry = <<>> THEN m
        ELSE IF Expired(t, entry[1]) THEN MapDelete(m, k)
        ELSE MapSet(MapDelete(m, k), k, entry[1])

\* Mutation of has: an expired entry is reported absent but left in the Map.
HasCacheNoSweep(m, k, t) == m

\* Mutation of has: every entry past its expiresAt is swept, whatever its key.
HasCacheSweepAll(m, k, t) == SelectSeq(m, LAMBDA e : ~Expired(t, e))

\* has: the Map after the call
HasCache(m, k, t) ==
    LET entry == MapGet(m, k)
    IN  IF entry = <<>> THEN m
        ELSE IF Expired(t, entry[1]) THEN MapDelete(m, k)
        ELSE m

\* has: the boolean returned
HasResult(m, k, t) ==
    LET entry == MapGet(m, k)
    IN  IF entry = <<>> THEN FALSE
        ELSE IF Expired(t, entry[1]) THEN FALSE
        ELSE TRUE

\* Mutation of delete: an entry past its expiresAt is left in the Map.
DeleteCacheLiveOnly(m, k) ==
    IF MapHas(m, k) /\ NumGt(now, MapGet(m, k)[1].expiresAt)
    THEN m
    ELSE MapDelete(m, k)

\* delete: the Map after the call
DeleteCache(m, k) == MapDelete(m, k)

\* Mutation of delete's result: true whatever the Map held.
DeleteResultAlways(m, k) == TRUE

\* delete: the boolean returned (Map.delete's own result)
DeleteResult(m, k) == MapHas(m, k)

\* Mutation of clear: only the entries past their expiresAt are dropped.
ClearCacheExpiredOnly(m) ==
    SelectSeq(m, LAMBDA e : ~NumGt(now, e.expiresAt))

\* clear
ClearCache(m) == <<>>

\* Mutation of size: only the entries not past their expiresAt are counted.
SizeLiveOnly == Len(SelectSeq(cache, LAMBDA e : ~NumGt(now, e.expiresAt)))

\* size
Size == Len(cache)

\* ------------------------------------------------------------ font.ts
Tasks == 1..MaxTasks

\* the calls made: <<family, weight, style, text>>, an omitted option being <<>>
FontCalls == {<<"Inter", <<>>, <<>>, <<>>>>,
              <<"Inter", <<700>>, <<>>, <<>>>>,
              <<"Inter", <<>>, <<"italic">>, <<>>>>,
              <<"Inter", <<>>, <<>>, <<"Hello">>>>}

\* a loadGoogleFont call that has not been made
IdleTask == [pc |-> "idle", family |-> "", weight |-> 0, style |-> "",
             text |-> <<>>, key |-> "", fetches |-> 0, result |-> <<>>,
             error |-> ""]

\* fontCacheKey: `${family}:${weight}:${style}`
FontCacheKey(family, weight, style) ==
    family \o ":" \o ToString(weight) \o ":" \o style

\* Mutation of the config: the weight is the default, not the one asked for.
FontConfigOfDefaultWeight(t) ==
    [name |-> tasks[t].family, weight |-> DefaultWeight,
     style |-> tasks[t].style,
     data |-> [by |-> t, text |-> tasks[t].text]]

\* the FontConfig built by the call of task t: a new object holding the
\* ArrayBuffer that t's font fetch returned for the text t asked for
FontConfigOf(t) ==
    [name |-> tasks[t].family, weight |-> tasks[t].weight,
     style |-> tasks[t].style,
     data |-> [by |-> t, text |-> tasks[t].text]]

\* Mutation of the lookup: the cached value is never used.
FontCacheHitNever(m, k, t) == FALSE

\* `if (cached)`: get returned an entry's value, a FontConfig object
FontCacheHit(m, k, t) == HasResult(m, k, t)

\* ---------------------------------------------------- image-response.ts
\* Header names are byte-case-insensitive: a Headers object keeps them in
\* lower case.
Lower(name) ==
    CASE name = "Content-Type" -> "content-type"
      [] name = "content-type" -> "content-type"
      [] name = "Cache-Control" -> "cache-control"
      [] name = "X-Custom" -> "x-custom"
      [] name = "Set-Cookie" -> "set-cookie"
      [] OTHER -> name      \* already in lower case

\* the names and values a caller passes in the headers option
HeaderNames == {"content-type", "Cache-Control", "X-Custom", "Set-Cookie"}
HeaderValues == {"u1", "u2"}

\* A Headers object: its header list, a sequence of [name, value] with the
\* names in lower case. (Iteration sorts by name; the order of different
\* names shows in no result used here and is left as it is.)
HeadersAppend(h, name, value) ==
    Append(h, [name |-> Lower(name), value |-> value])

\* new Headers(init), init a sequence of <<name, value>> pairs
RECURSIVE HeadersNew(_)
HeadersNew(init) ==
    IF init = <<>> THEN <<>>
    ELSE HeadersAppend(HeadersNew(SubSeq(init, 1, Len(init) - 1)),
                       init[Len(init)][1], init[Len(init)][2])

\* the values joined with ", "
RECURSIVE JoinValues(_)
JoinValues(vs) ==
    IF Len(vs) = 1 THEN vs[1]
    ELSE JoinValues(SubSeq(vs, 1, Len(vs) - 1)) \o ", " \o vs[Len(vs)]

ValuesOf(h, lname) ==
    LET hits == SelectSeq(h, LAMBDA e : e.name = lname)
    IN  [i \in 1..Len(hits) |-> hits[i].value]

\* Headers.get: null (<<>>) or <<the values of the name, combined>>
HeadersGet(h, name) ==
    IF ValuesOf(h, Lower(name)) = <<>> THEN <<>>
    ELSE <<JoinValues(ValuesOf(h, Lower(name)))>>

\* Headers.set: the first header of the name takes the value, the others of
\* the name are removed; a new name is appended
HeadersSet(h, name, value) ==
    LET lname == Lower(name)
        first == CHOOSE i \in 1..Len(h) :
                    h[i].name = lname /\ \A j \in 1..(i - 1) : h[j].name # lname
        RECURSIVE Pick(_)
        Pick(i) ==
            IF i > Len(h) THEN <<>>
            ELSE IF h[i].name # lname THEN <<h[i]>> \o Pick(i + 1)
            ELSE IF i = first
                 THEN <<[name |-> lname, value |-> value]>> \o Pick(i + 1)
            ELSE Pick(i + 1)
    IN  IF \E i \in 1..Len(h) : h[i].name = lname
        THEN Pick(1)
        ELSE Append(h, [name |-> lname, value |-> value])

\* The pairs Headers.forEach visits (the Fetch standard's sort and combine):
\* one pair per name with its values combined, but one pair per value for
\* set-cookie.
RECURSIVE HeadersEntries(_, _)
HeadersEntries(h, i) ==
    IF i > Len(h) THEN <<>>
    ELSE IF h[i].name = "set-cookie"
         THEN <<h[i]>> \o HeadersEntries(h, i + 1)
    ELSE IF \E j \in 1..(i - 1) : h[j].name = h[i].name
         THEN HeadersEntries(h, i + 1)
    ELSE <<[name |-> h[i].name, value |-> JoinValues(ValuesOf(h, h[i].name))]>>
         \o HeadersEntries(h, i + 1)

\* defaultHeaders
DefaultHeaders == <<<<"Content-Type", "image/png">>,
                    <<"Cache-Control", "public, max-age=3600, immutable">>>>

\* h.forEach((value, key) => mergedHeaders.set(key, value))
RECURSIVE SetEach(_, _)
SetEach(merged, entries) ==
    IF entries = <<>> THEN merged
    ELSE SetEach(HeadersSet(merged, entries[1].name, entries[1].value),
                 Tail(entries))

\* mergedHeaders, for the headers option given (<<>> when omitted)
MergedHeaders(optHeaders) ==
    IF optHeaders = <<>> THEN HeadersNew(DefaultHeaders)
    ELSE SetEach(HeadersNew(DefaultHeaders),
                 HeadersEntries(HeadersNew(optHeaders[1]), 1))

\* a status that allows no body: Response throws when given one with a body
NullBodyStatus(status) == status \in {101, 103, 204, 205, 304}

\* no ImageResponse constructed yet
NoResponse == [made |-> FALSE, threw |-> FALSE, optHeaders |-> <<>>,
               optStatus |-> <<>>, headers |-> <<>>, status |-> 0]

\* the ImageResponse of the constructor call: super(stream, { headers, status })
\* throws a RangeError for a status outside 200..599 and a TypeError for a
\* null-body status, as the body is a stream
ImageResponseOf(optHeaders, optStatus) ==
    LET status == Nullish(optStatus, DefaultStatus)
        ok == status >= 200 /\ status <= 599 /\ ~NullBodyStatus(status)
    IN  [made |-> ok, threw |-> ~ok,
         optHeaders |-> optHeaders, optStatus |-> optStatus,
         headers |-> IF ok THEN MergedHeaders(optHeaders) ELSE <<>>,
         status |-> IF ok THEN status ELSE 0]

\* no ReadableStream made yet. pc is where start() stands; state, enqueued and
\* error are the stream's; png says that pngBuffer was produced; cancelled,
\* that the reader of the body cancelled it
NoStream == [pc |-> "idle", state |-> "readable", enqueued |-> 0,
             error |-> "", png |-> FALSE, cancelled |-> FALSE]

\* controller.enqueue(chunk): throws on a stream that is not readable
CanEnqueue(s) == s.state = "readable"
ControllerEnqueue(s) == [s EXCEPT !.enqueued = @ + 1]

\* controller.close()
ControllerClose(s) == [s EXCEPT !.state = "closed"]

\* controller.error(e): nothing on a stream that is not readable
ControllerError(s, e) ==
    IF s.state = "readable" THEN [s EXCEPT !.state = "errored", !.error = e]
    ELSE s

\* the catch block of start(): the pipeline ends with controller.error(error)
Caught(s, e) == ControllerError([s EXCEPT !.pc = "done"], e)

\* the loadGoogleFont call as it stands at its first await (or returned, on a
\* cache hit)
StartedCall(m, family, optWeight, optStyle, optText) ==
    LET weight == Nullish(optWeight, DefaultWeight)
        style == Nullish(optStyle, "normal")
        key == FontCacheKey(family, weight, style)
        call == [IdleTask EXCEPT !.family = family, !.weight = weight,
                                 !.style = style, !.text = optText, !.key = key]
    IN  IF FontCacheHit(m, key, now)
        THEN [call EXCEPT !.pc = "done", !.result = <<GetResult(m, key, now)>>]
        ELSE [call EXCEPT !.pc = "awaitCss", !.fetches = 1]

\* obj[key] = value on an object, a sequence of <<key, value>> in the order
\* the keys were created; keys are compared as they are written
ObjectSet(obj, key, value) ==
    IF \E i \in 1..Len(obj) : obj[i][1] = key
    THEN [i \in 1..Len(obj) |->
            IF obj[i][1] = key THEN <<key, value>> ELSE obj[i]]
    ELSE Append(obj, <<key, value>>)

\* { ...a, ...b }
RECURSIVE ObjectSpread(_, _)
ObjectSpread(a, b) ==
    IF b = <<>> THEN a
    ELSE ObjectSpread(ObjectSet(a, b[1][1], b[1][2]), Tail(b))

\* Object.fromEntries(new Headers(init)): the names come out in lower case
RECURSIVE FromEntries(_)
FromEntries(entries) ==
    IF entries = <<>> THEN <<>>
    ELSE ObjectSet(FromEntries(SubSeq(entries, 1, Len(entries) - 1)),
                   entries[Len(entries)].name, entries[Len(entries)].value)

\* `public, max-age=${cacheTTL}, immutable`
MaxAge(cacheTTL) == "public, max-age=" \o ToString(cacheTTL) \o ", immutable"

\* the headers option the GET handler passes to ImageResponse:
\* { ...headers, ...Object.fromEntries(new Headers(imageOptions.headers)) }
HandlerHeaders(optCacheTTL, optHeaders) ==
    ObjectSpread(
        IF optCacheTTL # <<>> /\ optCacheTTL[1] > 0
        THEN <<<<"Cache-Control", MaxAge(optCacheTTL[1])>>>>
        ELSE <<>>,
        IF optHeaders = <<>> THEN <<>>
        ELSE FromEntries(HeadersEntries(HeadersNew(optHeaders[1]), 1)))

\* no createOgImage call yet
NoRoute == [pc |-> "none", optCacheTTL |-> <<>>, optHeaders |-> <<>>,
            renders |-> 0]

\* ---------------------------------------------------------------- actions
\* new LRUCache(options)
Constructor(optMaxSize, optTtl) ==
    /\ cache = <<>>
    /\ maxSize = Nullish(optMaxSize, DefaultMaxSize)
    /\ ttl = Nullish(optTtl, Infinity)

Init ==
    /\ \E optMaxSize \in {<<>>} \cup {<<n>> : n \in 1..MaxCap} :
       \E optTtl \in {<<>>} \cup {<<Fin(n)>> : n \in 0..MaxTtl} :
          Constructor(optMaxSize, optTtl)
    /\ now = 0
    /\ last = NoCall
    /\ tasks = [t \in Tasks |-> IdleTask]
    /\ resp = NoResponse
    /\ stream = NoStream
    /\ og = NoRoute

Get(k) ==
    /\ cache' = GetCache(cache, k, now)
    /\ last' = [NoCall EXCEPT !.op = "get", !.key = k,
                              !.entry = MapGet(cache, k),
                              !.had = MapHas(cache, k),
                              !.ret = GetResult(cache, k, now)]
    /\ UNCHANGED <<maxSize, ttl, now, tasks, resp, stream, og>>

Set(k, v) ==
    /\ cache' = SetCache(cache, k, v, now, maxSize, ttl)
    /\ last' = [NoCall EXCEPT !.op = "set", !.key = k, !.value = v,
                              !.entry = MapGet(cache, k),
                              !.had = MapHas(cache, k),
                              !.evicted = SetEvictedKey(SetRemoveExisting(cache, k), maxSize)]
    /\ UNCHANGED <<maxSize, ttl, now, tasks, resp, stream, og>>

Has(k) ==
    /\ cache' = HasCache(cache, k, now)
    /\ last' = [NoCall EXCEPT !.op = "has", !.key = k,
                              !.entry = MapGet(cache, k),
                              !.had = MapHas(cache, k),
                              !.bool = HasResult(cache, k, now)]
    /\ UNCHANGED <<maxSize, ttl, now, tasks, resp, stream, og>>

Delete(k) ==
    /\ cache' = DeleteCache(cache, k)
    /\ last' = [NoCall EXCEPT !.op = "delete", !.key = k,
                              !.entry = MapGet(cache, k),
                              !.had = MapHas(cache, k),
                              !.bool = DeleteResult(cache, k)]
    /\ UNCHANGED <<maxSize, ttl, now, tasks, resp, stream, og>>

Clear ==
    /\ cache' = ClearCache(cache)
    /\ last' = [NoCall EXCEPT !.op = "clear", !.had = (Len(cache) > 0)]
    /\ UNCHANGED <<maxSize, ttl, now, tasks, resp, stream, og>>

\* the clock moves on between two calls (vi.advanceTimersByTime in the tests)
AdvanceTime ==
    /\ now < MaxTime
    /\ now' = now + 1
    /\ last' = [NoCall EXCEPT !.op = "advance"]
    /\ UNCHANGED <<cache, maxSize, ttl, tasks, resp, stream, og>>

Next ==
    \/ \E k \in Keys : Get(k)
    \/ \E k \in Keys, v \in Values : Set(k, v)
    \/ \E k \in Keys : Has(k)
    \/ \E k \in Keys : Delete(k)
    \/ Clear
    \/ AdvanceTime

Spec == Init /\ [][Next]_vars

\* ------------------------------------------------------- font.ts actions
\* const fontCache = new LRUCache({ maxSize: 30, ttl: 30 * 60 * 1000 })
InitFont ==
    /\ Constructor(<<FontCacheMaxSize>>, <<Fin(FontCacheTtl)>>)
    /\ now = 0
    /\ last = NoCall
    /\ tasks = [t \in Tasks |-> IdleTask]
    /\ resp = NoResponse
    /\ stream = NoStream
    /\ og = NoRoute

\* Mutation of loadGoogleFont: the text option is part of the cache key.
LoadGoogleFontKeyedByText(t, family, optWeight, optStyle, optText) ==
    LET weight == Nullish(optWeight, DefaultWeight)
        style == Nullish(optStyle, "normal")
        key == FontCacheKey(family, weight, style)
                 \o (IF optText = <<>> THEN "" ELSE ":" \o optText[1])
        call == [IdleTask EXCEPT !.family = family, !.weight = weight,
                                 !.style = style, !.text = optText, !.key = key]
    IN  /\ tasks[t].pc = "idle"
        /\ IF t = 1 THEN TRUE ELSE tasks[t - 1].pc # "idle"
        /\ cache' = GetCache(cache, key, now)
        /\ tasks' = [tasks EXCEPT ![t] =
              IF FontCacheHit(cache, key, now)
              THEN [call EXCEPT !.pc = "done",
                                !.result = <<GetResult(cache, key, now)>>]
              ELSE [call EXCEPT !.pc = "awaitCss", !.fetches = 1]]
        /\ UNCHANGED <<maxSize, ttl, now, last, resp, stream, og>>

\* loadGoogleFont up to its first await: the key, the cache lookup and, on a
\* miss, the fetch of the CSS. The calls are numbered in the order they start
LoadGoogleFont(t, family, optWeight, optStyle, optText) ==
    LET weight == Nullish(optWeight, DefaultWeight)
        style == Nullish(optStyle, "normal")
        key == FontCacheKey(family, weight, style)
        call == [IdleTask EXCEPT !.family = family, !.weight = weight,
                                 !.style = style, !.text = optText, !.key = key]
    IN  /\ tasks[t].pc = "idle"
        /\ IF t = 1 THEN TRUE ELSE tasks[t - 1].pc # "idle"
        /\ cache' = GetCache(cache, key, now)
        /\ tasks' = [tasks EXCEPT ![t] =
              IF FontCacheHit(cache, key, now)
              THEN [call EXCEPT !.pc = "done",
                                !.result = <<GetResult(cache, key, now)>>]
              ELSE [call EXCEPT !.pc = "awaitCss", !.fetches = 1]]
        /\ UNCHANGED <<maxSize, ttl, now, last, resp, stream, og>>

\* await fetch(cssUrl) settles: a response that is ok or not, or a rejection
CssResponse(t, outcome) ==
    /\ tasks[t].pc = "awaitCss"
    /\ tasks' = [tasks EXCEPT ![t] =
          IF outcome = "ok" THEN [@ EXCEPT !.pc = "awaitCssText"]
          ELSE IF outcome = "notOk" THEN [@ EXCEPT !.pc = "failed", !.error = "css"]
          ELSE [@ EXCEPT !.pc = "failed", !.error = "network"]]
    /\ UNCHANGED <<cache, maxSize, ttl, now, last, resp, stream, og>>

\* await cssResponse.text() settles: the CSS names a font URL or does not;
\* with a URL the font binary is fetched
CssText(t, hasUrl) ==
    /\ tasks[t].pc = "awaitCssText"
    /\ tasks' = [tasks EXCEPT ![t] =
          IF hasUrl THEN [@ EXCEPT !.pc = "awaitFont", !.fetches = 2]
          ELSE [@ EXCEPT !.pc = "failed", !.error = "url"]]
    /\ UNCHANGED <<cache, maxSize, ttl, now, last, resp, stream, og>>

\* Mutation of the font fetch: the config is cached as soon as the response
\* is there, before it is checked.
FontResponseCachesFirst(t, outcome) ==
    /\ tasks[t].pc = "awaitFont"
    /\ cache' = SetCache(cache, tasks[t].key, FontConfigOf(t), now, maxSize, ttl)
    /\ tasks' = [tasks EXCEPT ![t] =
          IF outcome = "ok" THEN [@ EXCEPT !.pc = "awaitData"]
          ELSE IF outcome = "notOk" THEN [@ EXCEPT !.pc = "failed", !.error = "font"]
          ELSE [@ EXCEPT !.pc = "failed", !.error = "network"]]
    /\ UNCHANGED <<maxSize, ttl, now, last, resp, stream, og>>

\* await fetch(fontUrl) settles
FontResponse(t, outcome) ==
    /\ tasks[t].pc = "awaitFont"
    /\ tasks' = [tasks EXCEPT ![t] =
          IF outcome = "ok" THEN [@ EXCEPT !.pc = "awaitData"]
          ELSE IF outcome = "notOk" THEN [@ EXCEPT !.pc = "failed", !.error = "font"]
          ELSE [@ EXCEPT !.pc = "failed", !.error = "network"]]
    /\ UNCHANGED <<cache, maxSize, ttl, now, last, resp, stream, og>>

\* await fontResponse.arrayBuffer() settles: the config is built, cached and
\* returned
FontData(t) ==
    /\ tasks[t].pc = "awaitData"
    /\ cache' = SetCache(cache, tasks[t].key, FontConfigOf(t), now, maxSize, ttl)
    /\ tasks' = [tasks EXCEPT ![t] =
          [@ EXCEPT !.pc = "done", !.result = <<FontConfigOf(t)>>]]
    /\ UNCHANGED <<maxSize, ttl, now, last, resp, stream, og>>

\* Mutation of clearFontCache: the loads in flight are cancelled.
ClearFontCacheCancels ==
    /\ cache # <<>>
    /\ cache' = ClearCache(cache)
    /\ tasks' = [t \in Tasks |->
          IF tasks[t].pc \in {"awaitCss", "awaitCssText", "awaitFont", "awaitData"}
          THEN [tasks[t] EXCEPT !.pc = "failed", !.error = "cancelled"]
          ELSE tasks[t]]
    /\ UNCHANGED <<maxSize, ttl, now, last, resp, stream, og>>

\* clearFontCache
ClearFontCache ==
    /\ cache # <<>>
    /\ cache' = ClearCache(cache)
    /\ UNCHANGED <<maxSize, ttl, now, last, tasks, resp, stream, og>>

\* time passes between two steps: a millisecond, or the cache's whole ttl
\* (the clock runs MaxLaps ttls and MaxLaps milliseconds at most)
AdvanceFontTime(d) ==
    /\ (now + d) \div FontCacheTtl <= MaxLaps
    /\ (now + d) % FontCacheTtl <= MaxLaps
    /\ now' = now + d
    /\ UNCHANGED <<cache, maxSize, ttl, last, tasks, resp, stream, og>>

NextFont ==
    \/ \E t \in Tasks, c \in FontCalls :
            LoadGoogleFont(t, c[1], c[2], c[3], c[4])
    \/ \E t \in Tasks, outcome \in {"ok", "notOk", "rejected"} :
            CssResponse(t, outcome)
    \/ \E t \in Tasks, hasUrl \in BOOLEAN : CssText(t, hasUrl)
    \/ \E t \in Tasks, outcome \in {"ok", "notOk", "rejected"} :
            FontResponse(t, outcome)
    \/ \E t \in Tasks : FontData(t)
    \/ ClearFontCache
    \/ \E d \in {1, FontCacheTtl} : AdvanceFontTime(d)

SpecFont == InitFont /\ [][NextFont]_vars

\* ---------------------------------------------- image-response.ts actions
\* the headers options: sequences of at most MaxHeaders pairs
RECURSIVE HeaderInits(_)
HeaderInits(n) ==
    IF n = 0 THEN {<<>>}
    ELSE HeaderInits(n - 1) \cup
         {Append(init, <<name, value>>) :
            init \in {x \in HeaderInits(n - 1) : Len(x) = n - 1},
            name \in HeaderNames, value \in HeaderValues}

InitResponse ==
    /\ Constructor(<<FontCacheMaxSize>>, <<Fin(FontCacheTtl)>>)
    /\ now = 0
    /\ last = NoCall
    /\ tasks = [t \in Tasks |-> IdleTask]
    /\ resp = NoResponse
    /\ stream = NoStream
    /\ og = NoRoute

\* new ReadableStream({ start }): start runs at once, up to its first await.
\* With no fonts option that is inside loadGoogleFont('Inter', { weight: 700 }),
\* call 1 of the font module
StartStream ==
    /\ cache' = GetCache(cache, FontCacheKey("Inter", 700, "normal"), now)
    /\ tasks' = [tasks EXCEPT ![1] =
                    StartedCall(cache, "Inter", <<700>>, <<>>, <<>>)]
    /\ stream' = [NoStream EXCEPT !.pc = "fonts"]

\* new ImageResponse(element, { headers, status }): the stream is made and
\* started, the headers are merged and super(stream, { headers, status })
\* makes the Response or throws
NewImageResponse(optHeaders, optStatus) ==
    /\ ~resp.made /\ ~resp.threw
    /\ og.pc = "none"
    /\ StartStream
    /\ resp' = ImageResponseOf(optHeaders, optStatus)
    /\ UNCHANGED <<maxSize, ttl, now, last, og>>

\* resolvedFonts = [await loadGoogleFont(...)] settles
FontsResolved ==
    /\ stream.pc = "fonts"
    /\ tasks[1].pc \in {"done", "failed"}
    /\ stream' = IF tasks[1].pc = "done" THEN [stream EXCEPT !.pc = "satori"]
                 ELSE Caught(stream, tasks[1].error)
    /\ UNCHANGED <<cache, maxSize, ttl, now, last, tasks, resp, og>>

\* import('satori') and await satori(element, satoriOptions) settle
Satori(outcome) ==
    /\ stream.pc = "satori"
    /\ stream' = IF outcome = "ok" THEN [stream EXCEPT !.pc = "resvg"]
                 ELSE Caught(stream, "satori")
    /\ UNCHANGED <<cache, maxSize, ttl, now, last, tasks, resp, og>>

\* Mutation of the last step: the stream is closed without the PNG.
ResvgClosesOnly(outcome) ==
    /\ stream.pc = "resvg"
    /\ stream' =
         IF outcome # "ok" THEN Caught(stream, "resvg")
         ELSE ControllerClose([stream EXCEPT !.pc = "done", !.png = TRUE])
    /\ UNCHANGED <<cache, maxSize, ttl, now, last, tasks, resp, og>>

\* the imports of resvg, initWasm (its failure is swallowed), new Resvg,
\* render and asPng; then controller.enqueue(pngBuffer), controller.close()
Resvg(outcome) ==
    /\ stream.pc = "resvg"
    /\ stream' =
         IF outcome # "ok" THEN Caught(stream, "resvg")
         ELSE IF ~CanEnqueue(stream)
              THEN Caught([stream EXCEPT !.png = TRUE], "enqueue")
         ELSE ControllerClose(ControllerEnqueue(
                 [stream EXCEPT !.pc = "done", !.png = TRUE]))
    /\ UNCHANGED <<cache, maxSize, ttl, now, last, tasks, resp, og>>

\* the reader of response.body cancels it while it is readable
Cancel ==
    /\ resp.made
    /\ stream.state = "readable"
    /\ stream' = [stream EXCEPT !.state = "closed", !.cancelled = TRUE]
    /\ UNCHANGED <<cache, maxSize, ttl, now, last, tasks, resp, og>>

\* the steps of the stream's start callback, and of the font call it awaits
StreamSteps ==
    \/ \E t \in Tasks, outcome \in {"ok", "notOk", "rejected"} :
            CssResponse(t, outcome)
    \/ \E t \in Tasks, hasUrl \in BOOLEAN : CssText(t, hasUrl)
    \/ \E t \in Tasks, outcome \in {"ok", "notOk", "rejected"} :
            FontResponse(t, outcome)
    \/ \E t \in Tasks : FontData(t)
    \/ FontsResolved
    \/ \E outcome \in {"ok", "throws"} : Satori(outcome)
    \/ \E outcome \in {"ok", "throws"} : Resvg(outcome)
    \/ Cancel

NextResponse ==
    \/ \E optHeaders \in {<<>>} \cup {<<init>> : init \in HeaderInits(MaxHeaders)},
          optStatus \in {<<>>, <<201>>, <<204>>} :
            NewImageResponse(optHeaders, optStatus)
    \/ StreamSteps

SpecResponse == InitResponse /\ [][NextResponse]_vars

\* --------------------------------------------------- create-og-image.ts
InitOgImage == InitResponse

\* createOgImage(render, { cacheTTL, headers })
CreateOgImage(optCacheTTL, optHeaders) ==
    /\ og.pc = "none"
    /\ og' = [pc |-> "created", optCacheTTL |-> optCacheTTL,
              optHeaders |-> optHeaders, renders |-> 0]
    /\ UNCHANGED <<cache, maxSize, ttl, now, last, tasks, resp, stream>>

\* server.handlers.GET({ request }) up to its await: render({ request })
GET ==
    /\ og.pc = "created"
    /\ og' = [og EXCEPT !.pc = "awaitRender", !.renders = @ + 1]
    /\ UNCHANGED <<cache, maxSize, ttl, now, last, tasks, resp, stream>>

\* await render({ request }) settles: with an element the handler returns
\* new ImageResponse(element, { ...imageOptions, headers }); a rejection
\* rejects the handler
RenderSettles(outcome) ==
    /\ og.pc = "awaitRender"
    /\ IF outcome = "ok"
       THEN /\ StartStream
            /\ resp' = ImageResponseOf(
                          <<HandlerHeaders(og.optCacheTTL, og.optHeaders)>>, <<>>)
            /\ og' = [og EXCEPT !.pc = "returned"]
       ELSE /\ og' = [og EXCEPT !.pc = "rejected"]
            /\ UNCHANGED <<cache, tasks, resp, stream>>
    /\ UNCHANGED <<maxSize, ttl, now, last>>

NextOgImage ==
    \/ \E optCacheTTL \in {<<>>, <<0>>, <<60>>},
          optHeaders \in {<<>>} \cup {<<init>> : init \in HeaderInits(MaxHeaders)} :
            CreateOgImage(optCacheTTL, optHeaders)
    \/ GET
    \/ \E outcome \in {"ok", "rejected"} : RenderSettles(outcome)
    \/ StreamSteps

SpecOgImage == InitOgImage /\ [][NextOgImage]_vars

\* ------------------------------------------------------ shared vocabulary
\* now is later than the entry's expiresAt
PastExpiry(t, e) == (~e.expiresAt.inf) /\ t > e.expiresAt.n

\* the entry stored under k, with its key
Stored(m, k) == m[CHOOSE i \in 1..Len(m) : m[i].key = k]

\* m without the entry of k, the other entries in their order
Without(m, k) == SelectSeq(m, LAMBDA e : e.key # k)

\* the last call found an entry that was live / past its expiresAt
LastLive == last.entry # <<>> /\ ~PastExpiry(now, last.entry[1])
LastExpired == last.entry # <<>> /\ PastExpiry(now, last.entry[1])

\* ------------------------------------------------------------------ claims
\* C1: with a positive integer maxSize, size is at most maxSize in every state
\* observable between two calls.
C1_SizeAtMostMaxSize == Size <= maxSize

\* C2: a set of a key that is not present, on a cache holding maxSize entries,
\* removes exactly the entry at the least-recently-used end: the other entries
\* stay, the new key is present and size is maxSize.
C2_FullSetEvictsExactlyLRU ==
    [][(last'.op = "set" /\ ~last'.had /\ Len(cache) = maxSize)
        => /\ MapKeys(cache') = (MapKeys(cache) \ {cache[1].key}) \cup {last'.key}
           /\ Len(cache') = maxSize]_vars

\* C3: a get that hits a live entry moves that entry, unchanged, to the
\* most-recently-used end and leaves the other entries in their order; if other
\* entries exist, a following set of a new key at capacity removes nothing but
\* the entry at the least-recently-used end, so never the key just read.
C3_GetHitPromotes ==
    [][/\ (last'.op = "get" /\ last'.entry # <<>> /\ ~PastExpiry(now, last'.entry[1]))
          => /\ cache' = Append(Without(cache, last'.key), Stored(cache, last'.key))
             /\ last'.ret = Stored(cache, last'.key).value
       /\ (last.op = "get" /\ LastLive /\ Len(cache) >= 2
           /\ last'.op = "set" /\ ~last'.had)
          => /\ last.key \in MapKeys(cache')
             /\ MapKeys(cache) \ MapKeys(cache') \subseteq {cache[1].key}
             /\ cache[1].key # last.key]_vars

\* C3 witness: a get has just hit a live entry of a full cache holding at
\* least two entries, and the key read is at the most-recently-used end.
C3_Witness ==
    /\ last.op = "get" /\ LastLive
    /\ last.ret = last.entry[1].value
    /\ Len(cache) >= 2 /\ Len(cache) = maxSize
    /\ cache[Len(cache)].key = last.key

\* C4: get and has never report an entry whose expiresAt has passed: when the
\* call finds such an entry, get returns undefined and has returns false, and
\* whatever get returns or has confirms was stored and not past its expiresAt.
C4_NeverReportsExpired ==
    /\ (last.op = "get" /\ LastExpired) => last.ret = Undefined
    /\ (last.op = "has" /\ LastExpired) => last.bool = FALSE
    /\ (last.op = "get" /\ last.ret # Undefined) => LastLive
    /\ (last.op = "has" /\ last.bool) => LastLive

\* C4 witness: a get has just found an entry past its expiresAt and returned
\* undefined.
C4_Witness ==
    /\ last.op = "get" /\ LastExpired
    /\ last.ret = Undefined

\* C5: a set of a key that is already present, live or expired, evicts no
\* other key, even on a full cache: the present keys and size stay as they were
\* and the key now holds the new value.
C5_OverwriteNeverEvicts ==
    [][(last'.op = "set" /\ last'.had)
        => /\ MapKeys(cache') = MapKeys(cache)
           /\ Len(cache') = Len(cache)
           /\ Stored(cache', last'.key).value = last'.value]_vars

\* C6: a set of an existing key replaces its value, resets its expiresAt to the
\* time of this set plus ttl and moves it to the most-recently-used end, the
\* number of entries and the other entries staying as they were.
C6_OverwriteResetsEntry ==
    [][(last'.op = "set" /\ last'.had)
        => /\ cache' = Append(Without(cache, last'.key),
                              [key |-> last'.key, value |-> last'.value,
                               expiresAt |-> NumAdd(now, ttl)])
           /\ Len(cache') = Len(cache)]_vars

\* C7: has on a live entry returns true and changes neither the entries nor
\* their recency order; so when has was asked about the key at the
\* least-recently-used end, a following set of a new key that evicts at all
\* evicts that very key.
C7_HasDoesNotPromote ==
    [][/\ (last'.op = "has" /\ last'.entry # <<>> /\ ~PastExpiry(now, last'.entry[1]))
          => /\ last'.bool = TRUE
             /\ cache' = cache
       /\ (last.op = "has" /\ LastLive /\ cache[1].key = last.key
           /\ last'.op = "set" /\ ~last'.had /\ Len(cache') <= Len(cache))
          => last.key \notin MapKeys(cache')]_vars

\* C7 witness: has has just returned true for the key at the
\* least-recently-used end of a full cache holding at least two entries.
C7_Witness ==
    /\ last.op = "has" /\ LastLive /\ last.bool
    /\ Len(cache) >= 2 /\ Len(cache) = maxSize
    /\ cache[1].key = last.key

\* C8: delete removes the entry whenever one is stored under the key, live or
\* expired, and returns true exactly then; afterwards the key is absent, size
\* is one less and the other entries are as they were, in their order.
C8_DeleteRemovesPresent ==
    [][last'.op = "delete"
        => /\ last'.bool = (last'.key \in MapKeys(cache))
           /\ cache' = Without(cache, last'.key)
           /\ last'.key \notin MapKeys(cache')
           /\ (last'.key \in MapKeys(cache)) => Len(cache') = Len(cache) - 1]_vars

\* C8 witness: delete has just removed an entry that was past its expiresAt,
\* returning true, and other entries remain.
C8_Witness ==
    /\ last.op = "delete" /\ LastExpired /\ last.bool
    /\ last.key \notin MapKeys(cache)
    /\ Len(cache) >= 1

\* C9 as stated: delete returns false and leaves the cache unchanged whenever
\* the key is absent or its entry is past its expiresAt, swept or not.
C9_DeleteExpiredReturnsFalse ==
    [][(last'.op = "delete"
        /\ (last'.entry = <<>> \/ PastExpiry(now, last'.entry[1])))
        => /\ last'.bool = FALSE
           /\ cache' = cache]_vars

\* C9 amended: delete returns false exactly when no entry is stored under the
\* key, and then leaves the cache unchanged; that is the case for a key never
\* set or already removed, and for an expired entry that the get or has just
\* before swept, but not for an expired entry still stored.
C9_DeleteAbsentReturnsFalse ==
    [][last'.op = "delete"
        => /\ (last'.bool = FALSE) <=> (last'.key \notin MapKeys(cache))
           /\ (last'.key \notin MapKeys(cache)) => cache' = cache
           /\ (last.op \in {"get", "has"} /\ LastExpired /\ last'.key = last.key)
                => (last'.bool = FALSE /\ cache' = cache)]_vars

\* C9 witness: delete has just returned false for a key with no entry, on a
\* cache that holds other entries.
C9_Witness ==
    /\ last.op = "delete" /\ last.entry = <<>> /\ ~last.bool
    /\ Len(cache) >= 1

\* C10: after clear, size is 0 and get and has report every key absent; clear
\* on an empty cache changes nothing, as does a clear right after a clear; and
\* a set right after a clear leaves the one entry a set on a newly constructed
\* cache leaves.
C10_ClearEmpties ==
    [][/\ last'.op = "clear"
          => /\ Len(cache') = 0
             /\ \A k \in Keys : /\ GetResult(cache', k, now) = Undefined
                                 /\ ~HasResult(cache', k, now)
       /\ (last'.op = "clear" /\ (Len(cache) = 0 \/ last.op = "clear"))
          => cache' = cache
       /\ (last.op = "clear" /\ last'.op = "set")
          => cache' = <<[key |-> last'.key, value |-> last'.value,
                         expiresAt |-> NumAdd(now, ttl)]>>]_vars

\* C10 witness: clear has just emptied a cache that held entries.
C10_Witness ==
    /\ last.op = "clear" /\ last.had
    /\ Len(cache) = 0

\* position of key k in Map m
Pos(m, k) == CHOOSE i \in 1..Len(m) : m[i].key = k

\* the call recorded in frame f wrote its key or read it with a hit, at time t
Touch(f, t) ==
    \/ f.op = "set"
    \/ f.op = "get" /\ f.entry # <<>> /\ ~PastExpiry(t, f.entry[1])

\* C11: size is the number of entries physically stored, one per stored key,
\* entries past their expiresAt included; the clock advancing changes neither
\* the entries nor size.
C11_SizeCountsStoredEntries ==
    [][/\ Size' = Cardinality(MapKeys(cache'))
       /\ Size' = Len(cache')
       /\ last'.op = "advance" => (Size' = Size /\ cache' = cache)]_vars

\* C11 witness: the clock has just advanced past the expiresAt of a stored
\* entry, and size still counts it.
C11_Witness ==
    /\ last.op = "advance"
    /\ \E i \in 1..Len(cache) : PastExpiry(now, cache[i])
    /\ Size = Len(cache) /\ Size >= 1

\* C12: a get or has that finds an entry past its expiresAt removes exactly
\* that entry: size is one less, the key is no longer stored (a delete of it
\* right after returns false) and the other entries are as they were, in
\* their order.
C12_ExpiredLookupSweeps ==
    [][/\ (last'.op \in {"get", "has"} /\ last'.entry # <<>>
           /\ PastExpiry(now, last'.entry[1]))
          => /\ cache' = Without(cache, last'.key)
             /\ Len(cache') = Len(cache) - 1
             /\ last'.key \notin MapKeys(cache')
       /\ (last.op \in {"get", "has"} /\ LastExpired
           /\ last'.op = "delete" /\ last'.key = last.key)
          => last'.bool = FALSE]_vars

\* C12 witness: has has just found an entry past its expiresAt, returned false
\* and removed it, other entries remaining.
C12_Witness ==
    /\ last.op = "has" /\ LastExpired /\ ~last.bool
    /\ last.key \notin MapKeys(cache)
    /\ Len(cache) >= 1

\* C13: the recency order is the order of the last set or get-hit of the keys
\* present. Step by step: every set and every get-hit leaves its key at the
\* most-recently-used end, and no call changes the relative order of the other
\* keys that stay, nor brings in a key other than the one set.
C13_OrderIsTouchOrder ==
    [][/\ Touch(last', now) => cache'[Len(cache')].key = last'.key
       /\ \A x \in MapKeys(cache') :
             (Touch(last', now) /\ x = last'.key) \/ x \in MapKeys(cache)
       /\ \A x, y \in MapKeys(cache') :
             (/\ ~(Touch(last', now) /\ last'.key \in {x, y})
              /\ Pos(cache', x) < Pos(cache', y))
             => Pos(cache, x) < Pos(cache, y)]_vars

\* C13 witness: a set has just overwritten a key of a cache holding at least
\* two entries, and that key is at the most-recently-used end.
C13_Witness ==
    /\ last.op = "set" /\ last.had
    /\ Len(cache) >= 2
    /\ cache[Len(cache)].key = last.key

\* C14: get returns the value of the most recent set of the key while that
\* entry is still stored and live, and undefined for a key with no entry.
\* Step by step: a set stores its value under its key, no call changes the
\* value stored under another key that stays, a get that finds a live entry
\* returns the value stored, and a get that finds none returns undefined.
C14_GetReturnsLastSetValue ==
    [][/\ last'.op = "set" => Stored(cache', last'.key).value = last'.value
       /\ \A x \in MapKeys(cache') :
             (last'.op = "set" /\ x = last'.key)
             \/ (x \in MapKeys(cache)
                 /\ Stored(cache', x).value = Stored(cache, x).value)
       /\ (last'.op = "get" /\ last'.key \in MapKeys(cache)
           /\ ~PastExpiry(now, Stored(cache, last'.key)))
          => last'.ret = Stored(cache, last'.key).value
       /\ (last'.op = "get" /\ last'.key \notin MapKeys(cache))
          => last'.ret = Undefined]_vars

\* C14 witness: a get has just returned the value v2 stored under its key
\* while another key holds v1.
C14_Witness ==
    /\ last.op = "get" /\ LastLive /\ last.ret = "v2"
    /\ \E i \in 1..Len(cache) : cache[i].key # last.key /\ cache[i].value = "v1"

\* C15: with the default ttl (Infinity) no entry expires by time: whatever
\* the clock shows, every stored entry has no finite expiresAt, and get and
\* has report every stored key present.
C15_InfiniteTtlNeverExpires ==
    ttl.inf =>
        /\ \A i \in 1..Len(cache) : ~PastExpiry(now, cache[i])
        /\ (last.op = "get" /\ last.had)
             => (last.ret = last.entry[1].value /\ last.key \in MapKeys(cache))
        /\ (last.op = "has" /\ last.had)
             => (last.bool /\ last.key \in MapKeys(cache))

\* C15 witness: under the default ttl, after the clock has advanced twice, a
\* get has just hit an entry.
C15_Witness ==
    /\ ttl.inf /\ now >= 2
    /\ last.op = "get" /\ last.had /\ last.ret # Undefined

\* ------------------------------------------------------------ font claims
\* the call of task t is suspended at one of its awaits
InFlight(t) == tasks[t].pc \in {"awaitCss", "awaitCssText", "awaitFont", "awaitData"}

\* this step is the start of the call of task t
Starts(t) == tasks[t].pc = "idle" /\ tasks'[t].pc # "idle"

\* C16: a loadGoogleFont call that starts while the font cache holds a live
\* entry for its family, weight and style makes no fetch and returns the very
\* descriptor stored; and what is stored under a key is the descriptor that a
\* completed call for that key fetched, built and returned.
C16_LiveEntryIsReturnedWithoutFetch ==
    [][/\ \A t \in Tasks :
            (/\ Starts(t)
             /\ tasks'[t].key \in MapKeys(cache)
             /\ ~PastExpiry(now, Stored(cache, tasks'[t].key)))
            => /\ tasks'[t].pc = "done"
               /\ tasks'[t].fetches = 0
               /\ tasks'[t].result = <<Stored(cache, tasks'[t].key).value>>
       /\ \A i \in 1..Len(cache') :
            LET by == cache'[i].value.data.by
            IN  /\ tasks'[by].pc = "done"
                /\ tasks'[by].fetches = 2
                /\ tasks'[by].key = cache'[i].key
                /\ tasks'[by].result = <<cache'[i].value>>]_vars

\* C16 witness: the first call fetched and completed; the second call, for
\* the same key, completed without a fetch and returned the first's descriptor.
C16_Witness ==
    /\ tasks[1].pc = "done" /\ tasks[1].fetches = 2
    /\ tasks[2].pc = "done" /\ tasks[2].fetches = 0
    /\ tasks[2].key = tasks[1].key
    /\ tasks[2].result = tasks[1].result

\* C17: no redundant fetch: two calls for the same family, weight and style
\* are never both awaiting a fetch of their own.
C17_NoDuplicateFetchInFlight ==
    \A t1, t2 \in Tasks :
        (t1 # t2 /\ InFlight(t1) /\ InFlight(t2))
        => tasks[t1].key # tasks[t2].key

\* C18: a call that fails (CSS response not ok, no font URL in the CSS, font
\* response not ok, or a fetch that rejects) rejects with an error and stores
\* nothing: the failing step leaves the cache as it was and no stored
\* descriptor was built by a failed call; a call that starts when no entry is
\* stored for its key misses and fetches.
C18_FailureStoresNothing ==
    [][/\ \A t \in Tasks :
            (tasks[t].pc # "failed" /\ tasks'[t].pc = "failed")
            => /\ cache' = cache
               /\ tasks'[t].error \in {"css", "url", "font", "network"}
               /\ tasks'[t].result = <<>>
       /\ \A t \in Tasks : \A i \in 1..Len(cache') :
            tasks'[t].pc = "failed" => cache'[i].value.data.by # t
       /\ \A t \in Tasks :
            (Starts(t) /\ tasks'[t].key \notin MapKeys(cache))
            => (tasks'[t].pc = "awaitCss" /\ tasks'[t].fetches = 1
                /\ cache' = cache)]_vars

\* C18 witness: the first call failed on the font binary; the second call,
\* for the same key, found nothing stored and is fetching again.
C18_Witness ==
    /\ tasks[1].pc = "failed" /\ tasks[1].error = "font"
    /\ tasks[2].key = tasks[1].key
    /\ InFlight(2) /\ tasks[2].fetches >= 1
    /\ tasks[1].key \notin MapKeys(cache)

UserValues(name) ==
    LET init == resp.optHeaders[1]
        hits == SelectSeq(init, LAMBDA p : Lower(p[1]) = Lower(name))
    IN  [i \in 1..Len(hits) |-> hits[i][2]]

UserSupplies(name) ==
    IF resp.optHeaders = <<>> THEN FALSE ELSE UserValues(name) # <<>>

\* C20: user headers are merged over the defaults: the response carries, for
\* every name the user supplies, the user's value (all the user's values of
\* that name), every default the user did not supply keeps its default value,
\* and status is the user's status or 200.
C20_UserHeadersOverDefaults ==
    resp.made =>
        /\ \A name \in HeaderNames :
             UserSupplies(name)
             => HeadersGet(resp.headers, name) = <<JoinValues(UserValues(name))>>
        /\ \A i \in 1..Len(DefaultHeaders) :
             ~UserSupplies(DefaultHeaders[i][1])
             => HeadersGet(resp.headers, DefaultHeaders[i][1])
                  = <<DefaultHeaders[i][2]>>
        /\ resp.status = Nullish(resp.optStatus, DefaultStatus)

\* ------------------------------------------------- cache claims, continued
\* the call recorded in frame f found an entry under its key
Found(f) == f.entry # <<>>

\* C22: expiry is strict. A get or has that finds an entry returns it exactly
\* when now <= expiresAt, so at now = set time + ttl the entry is still
\* returned; with ttl = 0 a get or has at the clock value of the set returns
\* the entry, and one made after the clock has advanced does not.
C22_ExpiryIsStrict ==
    [][/\ (last'.op = "get" /\ Found(last') /\ ~last'.entry[1].expiresAt.inf)
          => (last'.ret = last'.entry[1].value)
                <=> (now <= last'.entry[1].expiresAt.n)
       /\ (last'.op = "has" /\ Found(last') /\ ~last'.entry[1].expiresAt.inf)
          => (last'.bool <=> (now <= last'.entry[1].expiresAt.n))
       /\ (last.op = "set" /\ last'.op \in {"get", "has"}
           /\ last'.key = last.key /\ ttl = Fin(0))
          => /\ Found(last') /\ last'.entry[1].expiresAt.n = now
             /\ last'.op = "get" => last'.ret = last.value
             /\ last'.op = "has" => last'.bool
       /\ (last'.op \in {"get", "has"} /\ Found(last') /\ ttl = Fin(0)
           /\ last'.entry[1].expiresAt.n < now)
          => /\ last'.op = "get" => last'.ret = Undefined
             /\ last'.op = "has" => ~last'.bool]_vars

\* C22 witness: get has just returned the value of an entry at the very
\* instant now = set time + ttl, with a ttl of at least 1.
C22_Witness ==
    /\ last.op = "get" /\ Found(last)
    /\ (~ttl.inf) /\ ttl.n >= 1
    /\ last.entry[1].expiresAt.n = now
    /\ last.ret = last.entry[1].value

\* C23: a set of a new key on a cache that is at capacity and not empty
\* removes the entry at the least-recently-used end whatever its key is, the
\* value undefined included, so that size stays within maxSize.
C23_EvictionWhateverTheKey ==
    [][(last'.op = "set" /\ ~last'.had
        /\ Len(cache) >= maxSize /\ Len(cache) > 0)
        => /\ cache[1].key \notin MapKeys(cache')
           /\ Len(cache') <= maxSize]_vars

\* C24: a call that finds nothing to change leaves the cache as it was: get,
\* has and delete on a key with no stored entry, and has on a live key, change
\* neither the entries, their expiresAt, their order nor size (nor maxSize or
\* ttl).
C24_NothingToChangeChangesNothing ==
    [][((last'.op \in {"get", "has", "delete"} /\ ~Found(last'))
        \/ (last'.op = "has" /\ Found(last')
            /\ ~PastExpiry(now, last'.entry[1])))
        => /\ cache' = cache
           /\ Len(cache') = Len(cache)
           /\ maxSize' = maxSize /\ ttl' = ttl]_vars

\* C24 witness: get has just missed on a key with no entry while the cache
\* holds an entry under another key that is past its expiresAt.
C24_Witness ==
    /\ last.op = "get" /\ ~Found(last) /\ last.ret = Undefined
    /\ \E i \in 1..Len(cache) : PastExpiry(now, cache[i])

\* C25: no sliding expiration. A get hit leaves the entry's expiresAt as it
\* was; no call but a set of the key gives a stored key an expiresAt, and set
\* gives now + ttl; a get or has after expiresAt reports the key absent
\* however often it was read before.
C25_GetDoesNotRenew ==
    [][/\ (last'.op = "get" /\ Found(last') /\ ~PastExpiry(now, last'.entry[1]))
          => Stored(cache', last'.key).expiresAt = last'.entry[1].expiresAt
       /\ \A k \in MapKeys(cache') :
             IF last'.op = "set" /\ last'.key = k
             THEN Stored(cache', k).expiresAt
                    = (IF ttl.inf THEN ttl ELSE Fin(now + ttl.n))
             ELSE /\ k \in MapKeys(cache)
                  /\ Stored(cache', k).expiresAt = Stored(cache, k).expiresAt
       /\ (last'.op \in {"get", "has"} /\ Found(last')
           /\ PastExpiry(now, last'.entry[1]))
          => /\ last'.op = "get" => last'.ret = Undefined
             /\ last'.op = "has" => ~last'.bool]_vars

\* C25 witness: get has just hit an entry later than the clock value of its
\* set, and the entry, now at the most-recently-used end, still expires at
\* set time + ttl.
C25_Witness ==
    /\ last.op = "get" /\ Found(last) /\ last.ret = last.entry[1].value
    /\ ~ttl.inf
    /\ cache[Len(cache)].key = last.key
    /\ cache[Len(cache)].expiresAt.n < now + ttl.n

\* C26: capacity eviction ignores expiry. A set leaves, apart from its own
\* key, exactly the entries that were stored, expired ones included, less the
\* least-recently-used one when the key is new and the cache is full, be that
\* entry live and the others expired.
C26_EvictionIgnoresExpiry ==
    [][last'.op = "set"
        => Without(cache', last'.key)
             = (IF ~last'.had /\ Len(cache) >= maxSize
                THEN Tail(cache)
                ELSE Without(cache, last'.key))]_vars

\* -------------------------------------------------- font claims, continued
\* tasks t and u asked for the same family, weight and style
SameFont(t, u) ==
    /\ tasks'[t].family = tasks[u].family
    /\ tasks'[t].weight = tasks[u].weight
    /\ tasks'[t].style = tasks[u].style

\* C27: the font cache key is built from family, weight and style only. A
\* call that starts after a call for the same family, weight and style but
\* another text has completed, its entry still live, makes no fetch and
\* returns the descriptor fetched for that earlier call's text.
C27_TextIsNotInTheKey ==
    [][\A t \in Tasks :
        Starts(t)
        => /\ tasks'[t].key = tasks'[t].family \o ":"
                                \o ToString(tasks'[t].weight) \o ":"
                                \o tasks'[t].style
           /\ \A u \in Tasks \ {t} :
                (/\ tasks[u].pc = "done" /\ tasks[u].fetches = 2
                 /\ SameFont(t, u)
                 /\ tasks[u].text # tasks'[t].text
                 /\ \E i \in 1..Len(cache) :
                       /\ <<cache[i].value>> = tasks[u].result
                       /\ ~PastExpiry(now, cache[i]))
                => /\ tasks'[t].pc = "done"
                   /\ tasks'[t].fetches = 0
                   /\ tasks'[t].result = tasks[u].result
                   /\ tasks'[t].result[1].data.text = tasks[u].text]_vars

\* C27 witness: the first call fetched a font for one text; the second call,
\* for the same family, weight and style and another text, completed without
\* a fetch and holds the first call's descriptor.
C27_Witness ==
    /\ tasks[1].pc = "done" /\ tasks[1].fetches = 2
    /\ tasks[2].pc = "done" /\ tasks[2].fetches = 0
    /\ tasks[2].text # tasks[1].text
    /\ tasks[2].result = tasks[1].result
    /\ tasks[2].result[1].data.text = tasks[1].text

\* this step is a clearFontCache on a cache that holds entries
Clears == cache # <<>> /\ cache' = <<>> /\ \A t \in Tasks : ~Starts(t)

\* C28: clearFontCache empties the font cache and touches no call: a call in
\* flight stays in flight. A call that starts on the empty cache misses and
\* fetches; a call in flight that receives its font data stores its
\* descriptor under its key whatever happened to the cache meanwhile, so the
\* cache holds an entry again.
C28_ClearDoesNotCancelLoads ==
    [][/\ Clears => (Len(cache') = 0 /\ tasks' = tasks)
       /\ \A t \in Tasks :
            /\ (Starts(t) /\ cache = <<>>)
               => (tasks'[t].pc = "awaitCss" /\ tasks'[t].fetches = 1)
            /\ (tasks[t].pc = "awaitData" /\ tasks'[t].pc # "awaitData")
               => /\ tasks'[t].pc = "done"
                  /\ tasks'[t].key \in MapKeys(cache')
                  /\ <<Stored(cache', tasks'[t].key).value>> = tasks'[t].result
                  /\ Stored(cache', tasks'[t].key).value.data.by = t]_vars

\* C28 witness: two calls for different keys both fetched and completed, the
\* first one started first, yet only the first one's entry is stored: the
\* cache was cleared after the second call stored its entry, while the first
\* was in flight, and the first stored its entry afterwards, no call having
\* started since.
C28_Witness ==
    /\ tasks[1].pc = "done" /\ tasks[1].fetches = 2
    /\ tasks[2].pc = "done" /\ tasks[2].fetches = 2
    /\ tasks[1].key # tasks[2].key
    /\ \A t \in Tasks : t > 2 => tasks[t].pc = "idle"
    /\ now = 0
    /\ MapKeys(cache) = {tasks[1].key}

\* ------------------------------------------------------- stream claims
\* font resolution has started: loadGoogleFont was called
FontsBegun == tasks[1].pc # "idle"

RouteCacheControl ==
    IF og.optHeaders = <<>> THEN <<>>
    ELSE LET hits == SelectSeq(og.optHeaders[1],
                        LAMBDA p : Lower(p[1]) = "cache-control")
         IN  [i \in 1..Len(hits) |-> hits[i][2]]

\* C21: when the GET handler has returned, render was called once, and the
\* response's Cache-Control is the one of options.headers if there is one,
\* else 'public, max-age=<cacheTTL>, immutable' if cacheTTL is a positive
\* number, else the default 'public, max-age=3600, immutable'.
C21_CacheControlOfTheRoute ==
    og.pc = "returned"
    => /\ og.renders = 1
       /\ resp.made
       /\ HeadersGet(resp.headers, "Cache-Control") =
            (IF RouteCacheControl # <<>>
             THEN <<JoinValues(RouteCacheControl)>>
             ELSE IF og.optCacheTTL # <<>> /\ og.optCacheTTL[1] > 0
             THEN <<"public, max-age=" \o ToString(og.optCacheTTL[1])
                      \o ", immutable">>
             ELSE <<"public, max-age=3600, immutable">>)

====
